---- MODULE Spec2Model ----
(***************************************************************************)
(* A model of mypy/checkunbound.py: the check for reads of locals that may *)
(* be unbound (UsageChecker / _UsageChecker) with its reachability         *)
(* sub-analysis (ReachabilityChecker) and its collector of local names     *)
(* (LocalsCollector).                                                      *)
(* The keys of expressions (literal_hash, literal and subkeys of           *)
(* mypy/literals.py) are modelled further down, with the expressions they  *)
(* are applied to.                                                         *)
(*                                                                         *)
(* Syntax trees are records.  A Block is the sequence of its statements.   *)
(* An Optional value is None (the empty sequence) or Some(v).              *)
(*                                                                         *)
(*   NameExpr   [kind |-> "name", name, fullname]                          *)
(*   IntExpr    [kind |-> "int", value]                                    *)
(*   CallExpr   [kind |-> "call", callee, args, analyzed]                  *)
(*   TupleExpr  [kind |-> "tuple", items]                                  *)
(*   GeneratorExpr [kind |-> "generator", indices, sequences, condlists,   *)
(*                  left_expr]                                             *)
(*   ListComprehension [kind |-> "listcomp", generator]                    *)
(*                                                                         *)
(*   AssignmentStmt [kind |-> "assign", lvalues, rvalue]                   *)
(*   OperatorAssignmentStmt [kind |-> "opassign", lvalue, rvalue]          *)
(*   ExpressionStmt [kind |-> "expr", expr]                                *)
(*   DelStmt        [kind |-> "del", expr]                                 *)
(*   ReturnStmt     [kind |-> "return", value]    (value is Optional)      *)
(*   RaiseStmt / BreakStmt / ContinueStmt  [kind |-> "raise"] ...          *)
(*   FuncDef        [kind |-> "funcdef", name]    (a nested definition)    *)
(*   IfStmt    [kind |-> "if", expr_list, body_list, else_body]            *)
(*   WhileStmt [kind |-> "while", expr, body, else_body]                   *)
(*   ForStmt   [kind |-> "for", index, expr, body, else_body]              *)
(*   TryStmt   [kind |-> "try", body, types, vars, handlers, else_body,    *)
(*              finally_body]                                              *)
(*   WithStmt  [kind |-> "with", expr_list, target, body]                  *)
(*                                                                         *)
(* IfStmt.expr and IfStmt.body are lists in mypy; they are called          *)
(* expr_list and body_list here so that a field name has one type.         *)
(***************************************************************************)
EXTENDS Integers, Sequences, FiniteSets, TLC

None == <<>>

Some(v) == <<v>>

Min(a, b) == IF a <= b THEN a ELSE b

(***************************************************************************)
(* Literal conditions                                                      *)
(***************************************************************************)

\* _is_false: the name builtins.False, or the integer literal 0.
_is_false(e) ==
    \/ e.kind = "name" /\ e.fullname = "builtins.False"
    \/ e.kind = "int" /\ e.value = 0

\* A variant of _is_true that knows the integer literal 1 only.
IsTrueIntOnly(e) == e.kind = "int" /\ e.value = 1

\* _is_true: the name builtins.True, or the integer literal 1.
_is_true(e) ==
    \/ e.kind = "name" /\ e.fullname = "builtins.True"
    \/ e.kind = "int" /\ e.value = 1

(***************************************************************************)
(* Names bound by a target                                                 *)
(***************************************************************************)

RECURSIVE _get_lvalues(_)
\* _get_lvalues: the names of a target; a NameExpr gives its name, a
\* TupleExpr the names of its items.  (The dict's values, the NameExpr
\* nodes, are never read by this module's callers; only its keys are.)
_get_lvalues(x) ==
    CASE x.kind = "name" -> {x.name}
      [] x.kind = "tuple" ->
            UNION {_get_lvalues(x.items[i]) : i \in DOMAIN x.items}
      [] OTHER -> {}

\* _get_lvalue_names is called by _UsageChecker and defined nowhere in
\* checkunbound.py; it is taken to be what its name and its callers say,
\* the names bound by the target.
_get_lvalue_names(x) == _get_lvalues(x)

(***************************************************************************)
(* ReachabilityChecker                                                     *)
(***************************************************************************)

RECURSIVE ExprExits(_)
\* ReachabilityChecker.visit_call_expr over an expression: TRUE iff the
\* walk meets a call of sys.exit (is_sys_attr(o.callee, 'exit')); the
\* arguments of such a call are not visited, those of other calls are.
ExprExits(e) ==
    CASE e.kind = "call" ->
            \/ e.callee = "sys.exit"
            \/ \E i \in DOMAIN e.args : ExprExits(e.args[i])
      [] e.kind = "tuple" -> \E i \in DOMAIN e.items : ExprExits(e.items[i])
      [] OTHER -> FALSE

RECURSIVE ReachStmt(_, _)
RECURSIVE ReachBlock(_, _)
RECURSIVE ReachBodiesAndElse(_, _, _, _)

\* ReachabilityChecker._check_block: a fresh checker walks the block.
_check_block(b) == ReachBlock(FALSE, b)

\* TraverserVisitor.visit_block under a ReachabilityChecker whose
\* is_end_unreachable is `flag`: every statement is visited in turn.
ReachBlock(flag, b) ==
    IF b = <<>> THEN flag ELSE ReachBlock(ReachStmt(flag, Head(b)), Tail(b))

\* ReachabilityChecker._visit_bodies_and_else: the new is_end_unreachable.
\* An else body that is given and not excluded is appended to `bodies`.
ReachBodiesAndElse(flag, bodies, else_body, else_is_unreachable) ==
    IF flag THEN TRUE
    ELSE LET all_bodies == IF ~else_is_unreachable /\ else_body # None
                           THEN Append(bodies, else_body[1])
                           ELSE bodies
         IN  \A i \in DOMAIN all_bodies : _check_block(all_bodies[i])

\* One statement visited by a ReachabilityChecker: the new flag.
ReachStmt(flag, s) ==
    CASE s.kind \in {"return", "continue", "raise", "break"} -> TRUE
      [] s.kind = "expr" -> flag \/ ExprExits(s.expr)
      [] s.kind = "assign" -> flag \/ ExprExits(s.rvalue)
      [] s.kind = "opassign" -> flag \/ ExprExits(s.rvalue)
      [] s.kind = "if" ->
            ReachBodiesAndElse(
                flag \/ \E i \in DOMAIN s.expr_list : ExprExits(s.expr_list[i]),
                s.body_list, s.else_body, FALSE)
      [] s.kind = "while" ->
            ReachBodiesAndElse(flag \/ ExprExits(s.expr), <<s.body>>,
                               s.else_body, _is_true(s.expr))
      [] s.kind = "for" ->
            ReachBodiesAndElse(flag \/ ExprExits(s.expr), <<s.body>>,
                               s.else_body, FALSE)
      \* visit_try_stmt returns all(has_unreachable_end) to nobody:
      \* is_end_unreachable is left as it was.
      [] s.kind = "try" -> flag
      \* visit_func: nested functions are not entered.
      [] OTHER -> flag

\* _is_end_unreachable of a Block.
_is_end_unreachable(body) == ReachBlock(FALSE, body)

(***************************************************************************)
(* What the reachability walk does to the tree                             *)
(***************************************************************************)

\* The else body of an if statement becomes b.  The bodies of o.body past
\* the conditions are that same Block: bodies.append(else_body) put it
\* there.
SetElse(o, b) ==
    [o EXCEPT !.else_body = Some(b),
              !.body_list = [j \in DOMAIN o.body_list |->
                                IF j > Len(o.expr_list) THEN b
                                ELSE o.body_list[j]]]

\* o.body[i] becomes b.
SetBody(o, i, b) ==
    IF i > Len(o.expr_list) THEN SetElse(o, b)
    ELSE [o EXCEPT !.body_list[i] = b]

RECURSIVE ReachedStmt(_, _)
RECURSIVE ReachedBlock(_, _)
RECURSIVE ReachedBodies(_, _)

\* The block after a ReachabilityChecker whose is_end_unreachable is
\* `flag` has walked it.
ReachedBlock(flag, b) ==
    IF b = <<>> THEN <<>>
    ELSE <<ReachedStmt(flag, Head(b))>>
         \o ReachedBlock(ReachStmt(flag, Head(b)), Tail(b))

\* all(self._check_block(b) for b in bodies) over o.body from position i:
\* the if statement afterwards.  The first body whose end is reachable
\* ends the evaluation.
ReachedBodies(o, i) ==
    IF i > Len(o.body_list) THEN o
    ELSE IF _check_block(o.body_list[i])
         THEN ReachedBodies(
                  SetBody(o, i, ReachedBlock(FALSE, o.body_list[i])), i + 1)
         ELSE SetBody(o, i, ReachedBlock(FALSE, o.body_list[i]))

\* The statement after a ReachabilityChecker whose is_end_unreachable is
\* `flag` has visited it.  _visit_bodies_and_else appends the else body to
\* the list it is given, which for an if statement is o.body itself; for a
\* loop it is a new list.
ReachedStmt(flag, s) ==
    CASE s.kind = "if" ->
            IF flag \/ \E i \in DOMAIN s.expr_list : ExprExits(s.expr_list[i])
            THEN s
            ELSE ReachedBodies(
                    IF s.else_body # None
                    THEN [s EXCEPT !.body_list = Append(@, s.else_body[1])]
                    ELSE s, 1)
      [] s.kind \in {"while", "for"} ->
            IF flag \/ ExprExits(s.expr) THEN s
            ELSE [s EXCEPT
                    !.body = ReachedBlock(FALSE, @),
                    !.else_body =
                        IF /\ @ # None
                           /\ ~(s.kind = "while" /\ _is_true(s.expr))
                           /\ _check_block(s.body)
                        THEN Some(ReachedBlock(FALSE, @[1]))
                        ELSE @]
      [] s.kind = "try" ->
            IF flag THEN s
            ELSE [s EXCEPT
                    !.body = ReachedBlock(FALSE, @),
                    !.handlers = [i \in DOMAIN @ |-> ReachedBlock(FALSE, @[i])],
                    !.else_body =
                        IF @ = None THEN @
                        ELSE Some(ReachedBlock(FALSE, @[1])),
                    !.finally_body =
                        IF @ = None THEN @
                        ELSE Some(ReachedBlock(FALSE, @[1]))]
      [] OTHER -> s

(***************************************************************************)
(* _UsageChecker                                                           *)
(*                                                                         *)
(* A checker is a record                                                   *)
(*   locals  self.locals                                                   *)
(*   py3     self.options.python_version >= (3,)                           *)
(*   a       self.assignments, a function from names to BOOLEAN            *)
(*   msgs    the diagnostics given to self.msg so far, in order: the name  *)
(*           of each warn_may_raise_unbound_local_error call               *)
(*   o       the content of the dict object that self.assignments was      *)
(*           bound to when this walk began                                 *)
(*   linked  TRUE while self.assignments is still bound to that object     *)
(* _record_assignment, _record_deletion and visit_with_stmt write into the *)
(* dict in place; _absorb_assignments binds self.assignments to another    *)
(* dict.  visit_try_stmt keeps a second reference to a dict it binds       *)
(* self.assignments to, which is why o and linked are kept.                *)
(***************************************************************************)

\* dict[k] = v
Put(d, k, v) == [n \in (DOMAIN d) \cup {k} |-> IF n = k THEN v ELSE d[n]]

\* _UsageChecker.__init__: the locals of the parent and a copy of its
\* assignments; the message sink is the parent's.
NewChecker(parent) ==
    [locals |-> parent.locals, py3 |-> parent.py3, a |-> parent.a,
     msgs |-> parent.msgs, o |-> parent.a, linked |-> TRUE]

\* self.assignments[name] = v, in place.
SetInPlace(ck, name, v) ==
    [ck EXCEPT !.a = Put(@, name, v),
               !.o = IF ck.linked THEN Put(ck.a, name, v) ELSE @]

\* _UsageChecker._record_assignment
_record_assignment(ck, name) ==
    IF name \in ck.locals THEN SetInPlace(ck, name, TRUE) ELSE ck

\* A variant of _record_deletion that leaves the state as it is.
RecordDeletionKeep(ck, name) == ck

\* _UsageChecker._record_deletion
_record_deletion(ck, name) ==
    IF name \in ck.locals THEN SetInPlace(ck, name, FALSE) ELSE ck

RECURSIVE RecordAssignments(_, _)
\* for name in names: self._record_assignment(name)
RecordAssignments(ck, names) ==
    IF names = {} THEN ck
    ELSE LET n == CHOOSE n \in names : TRUE
         IN  RecordAssignments(_record_assignment(ck, n), names \ {n})

RECURSIVE RecordDeletions(_, _)
\* for name in names: self._record_deletion(name)
RecordDeletions(ck, names) ==
    IF names = {} THEN ck
    ELSE LET n == CHOOSE n \in names : TRUE
         IN  RecordDeletions(_record_deletion(ck, n), names \ {n})

\* _UsageChecker.visit_name_expr: warn when the name is a local that is
\* not assigned; the read changes no state.
visit_name_expr(ck, e) ==
    IF e.name \in ck.locals /\ ~ck.a[e.name]
    THEN [ck EXCEPT !.msgs = Append(@, e.name)]
    ELSE ck

RECURSIVE VisitExpr(_, _)
RECURSIVE VisitExprs(_, _)
RECURSIVE GeneratorLoop(_, _, _, _)

\* The names bound by the indices of a generator.
IndexNames(o) ==
    UNION {_get_lvalue_names(o.indices[i]) : i \in DOMAIN o.indices}

\* A variant of _make_generator_checker in which the index names stay
\* tracked.
MakeGeneratorCheckerTracked(ck, o) ==
    [locals |-> ck.locals, py3 |-> ck.py3, a |-> ck.a, msgs |-> ck.msgs,
     o |-> ck.a, linked |-> TRUE]

\* _UsageChecker._make_generator_checker: a new checker made from self,
\* in which the index names are not locals and have no entry.
_make_generator_checker(ck, o) ==
    [locals |-> ck.locals \ IndexNames(o), py3 |-> ck.py3,
     a |-> [n \in (DOMAIN ck.a) \ IndexNames(o) |-> ck.a[n]],
     msgs |-> ck.msgs,
     o |-> [n \in (DOMAIN ck.a) \ IndexNames(o) |-> ck.a[n]],
     linked |-> TRUE]

\* _UsageChecker.visit_generator_expr: the generator's checker walks it as
\* TraverserVisitor.visit_generator_expr does; self keeps its state.
visit_generator_expr(ck, o) ==
    [ck EXCEPT !.msgs =
        GeneratorLoop(_make_generator_checker(ck, o), o, 1, FALSE).msgs]

\* _UsageChecker.visit_list_comprehension: with version 3 the generator's
\* checker walks the generator, below 3 self does; the walk records the
\* index names as assigned.
visit_list_comprehension(ck, o) ==
    IF ck.py3
    THEN [ck EXCEPT !.msgs =
            GeneratorLoop(_make_generator_checker(ck, o.generator),
                          o.generator, 1, TRUE).msgs]
    ELSE GeneratorLoop(ck, o.generator, 1, TRUE)

\* An expression accepted by a _UsageChecker.  visit_call_expr does not
\* enter a call whose analyzed form is a RevealExpr.
VisitExpr(ck, e) ==
    CASE e.kind = "name" -> visit_name_expr(ck, e)
      [] e.kind = "call" ->
            IF e.analyzed = "reveal" THEN ck ELSE VisitExprs(ck, e.args)
      [] e.kind = "tuple" -> VisitExprs(ck, e.items)
      [] e.kind = "generator" -> visit_generator_expr(ck, e)
      [] e.kind = "listcomp" -> visit_list_comprehension(ck, e)
      [] OTHER -> ck

VisitExprs(ck, es) ==
    IF es = <<>> THEN ck ELSE VisitExprs(VisitExpr(ck, Head(es)), Tail(es))

\* The loop over zip(g.indices, g.sequences, g.condlists) from position i,
\* then g.left_expr.  TraverserVisitor.visit_generator_expr visits the
\* sequence, the index and the conditions; the loop inlined in
\* visit_list_comprehension records the index names instead of visiting
\* the index.
GeneratorLoop(ck, g, i, inlined) ==
    IF i > Min(Len(g.indices), Min(Len(g.sequences), Len(g.condlists)))
    THEN VisitExpr(ck, g.left_expr)
    ELSE GeneratorLoop(
            VisitExprs(
                IF inlined
                THEN RecordAssignments(VisitExpr(ck, g.sequences[i]),
                                       _get_lvalue_names(g.indices[i]))
                ELSE VisitExpr(VisitExpr(ck, g.sequences[i]), g.indices[i]),
                g.condlists[i]),
            g, i + 1, inlined)

\* A variant of _merge_assignments in which one contributor suffices.
MergeAssignmentsAny(locals, block_assignments) ==
    IF block_assignments = <<>> THEN None
    ELSE Some([local \in locals |->
                 \E i \in DOMAIN block_assignments :
                    block_assignments[i][local]])

\* A variant of _merge_assignments whose dict has an entry only for the
\* locals that every contributor has assigned.
MergeAssignmentsSparse(locals, block_assignments) ==
    IF block_assignments = <<>> THEN None
    ELSE Some([local \in {l \in locals :
                             \A i \in DOMAIN block_assignments :
                                block_assignments[i][l]} |-> TRUE])

\* _UsageChecker._merge_assignments: None for no contributor, else for
\* each local the conjunction over the contributors.
_merge_assignments(locals, block_assignments) ==
    IF block_assignments = <<>> THEN None
    ELSE Some([local \in locals |->
                 \A i \in DOMAIN block_assignments :
                    block_assignments[i][local]])

\* A variant of _absorb_assignments that keeps the state when
\* `assignments` is None.
AbsorbAssignmentsKeep(ck, assignments) ==
    [ck EXCEPT !.a = IF assignments = None THEN ck.a ELSE assignments[1],
               !.linked = FALSE]

\* _UsageChecker._absorb_assignments: self.assignments is bound to a new
\* dict, every local assigned when `assignments` is None.
_absorb_assignments(ck, assignments) ==
    [ck EXCEPT !.a = IF assignments = None
                     THEN [local \in ck.locals |-> TRUE]
                     ELSE assignments[1],
               !.linked = FALSE]

RECURSIVE VisitStmt(_, _)
RECURSIVE VisitBlock(_, _)
RECURSIVE _get_block_assignments(_, _, _)
RECURSIVE CollectBlocks(_, _, _, _)
RECURSIVE IfLoop(_, _, _, _)
RECURSIVE HandlerLoop(_, _, _, _)

\* TraverserVisitor.visit_block: each statement accepts the checker.
VisitBlock(ck, b) ==
    IF b = <<>> THEN ck ELSE VisitBlock(VisitStmt(ck, Head(b)), Tail(b))

\* What a walk hands back: an Optional dict, and the sink afterwards.
Result(asg, msgs) == [asg |-> asg, msgs |-> msgs]

\* return checker.assignments
CheckerResult(checker) == Result(Some(checker.a), checker.msgs)

\* _UsageChecker._get_block_assignments.  A block whose end is unreachable
\* is not walked: None is returned before a checker is made for it.  The
\* block that is walked is the block as _is_end_unreachable left it.
_get_block_assignments(ck, o, loop_vars) ==
    IF o = None THEN Result(Some(ck.a), ck.msgs)
    ELSE IF _is_end_unreachable(o[1]) THEN Result(None, ck.msgs)
    ELSE CheckerResult(
            VisitBlock(RecordAssignments(NewChecker(ck), loop_vars),
                       ReachedBlock(FALSE, o[1])))

\* if assignments is not None: block_assignments.append(assignments);
\* loop_vars = []; and the rest of the loop of _merge_blocks.
CollectNext(ck, blocks, acc, r) ==
    CollectBlocks([ck EXCEPT !.msgs = r.msgs], blocks, {},
                  IF r.asg = None THEN acc ELSE Append(acc, r.asg[1]))

\* The loop of _UsageChecker._merge_blocks: the dicts of the blocks whose
\* result is not None, loop_vars given to the first block only.
CollectBlocks(ck, blocks, loop_vars, acc) ==
    IF blocks = <<>> THEN [list |-> acc, msgs |-> ck.msgs]
    ELSE CollectNext(ck, Tail(blocks), acc,
                     _get_block_assignments(ck, Head(blocks), loop_vars))

\* return self._merge_assignments(block_assignments)
MergeCollected(locals, c) ==
    Result(_merge_assignments(locals, c.list), c.msgs)

\* _UsageChecker._merge_blocks
_merge_blocks(ck, blocks, loop_vars) ==
    MergeCollected(ck.locals, CollectBlocks(ck, blocks, loop_vars, <<>>))

\* self._absorb_assignments(<result of _merge_blocks>)
AbsorbResult(ck, r) == _absorb_assignments([ck EXCEPT !.msgs = r.msgs], r.asg)

\* _UsageChecker._visit_bodies_and_else; `bodies` is a list of Optional
\* blocks, to which else_body (None when absent) is appended.
_visit_bodies_and_else(ck, bodies, else_body, else_is_unreachable, loop_vars) ==
    AbsorbResult(ck,
        _merge_blocks(ck,
            IF ~else_is_unreachable THEN Append(bodies, else_body) ELSE bodies,
            loop_vars))

\* One round of the loop of visit_if_stmt after e.accept(self): a body
\* whose condition is not provably false is kept; a provably true
\* condition ends the loop with else_is_unreachable set.
IfStep(ck2, s, i, blocks2) ==
    IF _is_true(s.expr_list[i])
    THEN [ck |-> ck2, blocks |-> blocks2, else_is_unreachable |-> TRUE]
    ELSE IfLoop(ck2, s, i + 1, blocks2)

\* A variant of the loop that goes over every body of o.body, as
\* TraverserVisitor.visit_if_stmt does: a body past the conditions is kept.
IfLoopEveryBody(ck, s, i, blocks) ==
    IF i > Len(s.body_list)
    THEN [ck |-> ck, blocks |-> blocks, else_is_unreachable |-> FALSE]
    ELSE IF i > Len(s.expr_list)
    THEN IfLoop(ck, s, i + 1, Append(blocks, Some(s.body_list[i])))
    ELSE IfStep(VisitExpr(ck, s.expr_list[i]), s, i,
                IF ~_is_false(s.expr_list[i])
                THEN Append(blocks, Some(s.body_list[i]))
                ELSE blocks)

\* The loop of _UsageChecker.visit_if_stmt over zip(o.expr, o.body), from
\* position i.
IfLoop(ck, s, i, blocks) ==
    IF i > Min(Len(s.expr_list), Len(s.body_list))
    THEN [ck |-> ck, blocks |-> blocks, else_is_unreachable |-> FALSE]
    ELSE IfStep(VisitExpr(ck, s.expr_list[i]), s, i,
                IF ~_is_false(s.expr_list[i])
                THEN Append(blocks, Some(s.body_list[i]))
                ELSE blocks)

\* self._visit_bodies_and_else(blocks, o.else_body, else_is_unreachable)
IfJoin(l, s) ==
    _visit_bodies_and_else(l.ck, l.blocks, s.else_body,
                           l.else_is_unreachable, {})

\* _UsageChecker.visit_if_stmt
visit_if_stmt(ck, s) == IfJoin(IfLoop(ck, s, 1, <<>>), s)

\* _UsageChecker.visit_while_stmt
visit_while_stmt(ck, s) ==
    _visit_bodies_and_else(VisitExpr(ck, s.expr), <<Some(s.body)>>,
                           s.else_body, _is_true(s.expr), {})

\* A variant of visit_for_stmt without the path of zero iterations.
VisitForStmtOnce(ck, s) ==
    _visit_bodies_and_else(VisitExpr(ck, s.expr), <<Some(s.body)>>,
                           s.else_body, TRUE, _get_lvalue_names(s.index))

\* _UsageChecker.visit_for_stmt
visit_for_stmt(ck, s) ==
    _visit_bodies_and_else(VisitExpr(ck, s.expr), <<Some(s.body)>>,
                           s.else_body, FALSE, _get_lvalue_names(s.index))

\* _UsageChecker._check of an Optional expression.
_check(ck, oe) == IF oe = None THEN ck ELSE VisitExpr(ck, oe[1])

\* A handler's checker before its body: the type is checked, the bound
\* name is recorded as assigned and checked.
HandlerStart(checker, type, v) ==
    IF v = None THEN _check(checker, type)
    ELSE _check(_record_assignment(_check(checker, type), v[1].name), v)

\* A variant of the end of a handler that never deletes the bound name.
HandlerEndKeep(py3_, v, checker) == checker

\* After the body: Python 3 deletes the bound name.
HandlerEnd(py3_, v, checker) ==
    IF v # None /\ py3_ THEN _record_deletion(checker, v[1].name) ELSE checker

\* The handler's dict joins block_assignments when the handler's end is
\* reachable; then the next handler.
HandlerNext(ck, s, i, acc, checker) ==
    HandlerLoop([ck EXCEPT !.msgs = checker.msgs], s, i + 1,
                IF ~_is_end_unreachable(s.handlers[i])
                THEN Append(acc, checker.a) ELSE acc)

\* The handler loop of _UsageChecker.visit_try_stmt, from handler i: each
\* handler is walked by a new checker made from self.
HandlerLoop(ck, s, i, acc) ==
    IF i > Len(s.types) THEN [list |-> acc, msgs |-> ck.msgs]
    ELSE HandlerNext(ck, s, i, acc,
            HandlerEnd(ck.py3, s.vars[i],
                VisitBlock(HandlerStart(NewChecker(ck), s.types[i], s.vars[i]),
                           s.handlers[i])))

\* The end of visit_try_stmt: with a finally body, that body is walked by
\* self; self._check returns None, which _absorb_assignments is given.
TryFinally(s, ck2) ==
    IF s.finally_body = None THEN ck2
    ELSE _absorb_assignments(VisitBlock(ck2, s.finally_body[1]), None)

\* The join of visit_try_stmt.  r0 is the result for the try body, h the
\* handlers' dicts, ckE self after the else part.  block_assignments is
\* block_assignments[0], then the handlers' dicts, then else_assignments,
\* without the Nones.  With an else body that was walked,
\* block_assignments[0] is the dict self.assignments was bound to, as the
\* walk of the else body left it (ckE.o), and else_assignments is None,
\* the value of self._check.  Without an else body else_assignments is a
\* copy of block_assignments[0].
TryJoin(ck, s, r0, h, ckE) ==
    TryFinally(s,
        _absorb_assignments(
            [ckE EXCEPT !.o = ck.o],
            _merge_assignments(ck.locals,
                (IF r0.asg = None THEN <<>>
                 ELSE IF s.else_body # None THEN <<ckE.o>> ELSE <<r0.asg[1]>>)
                \o h.list
                \o (IF s.else_body = None /\ r0.asg # None
                    THEN <<r0.asg[1]>> ELSE <<>>))))

\* The else part of visit_try_stmt: with an else body and a try body whose
\* end is reachable, self.assignments = block_assignments[0] and the else
\* body is walked by self.
TryElse(ck, s, r0, h) ==
    TryJoin(ck, s, r0, h,
        IF s.else_body # None /\ r0.asg # None
        THEN VisitBlock([ck EXCEPT !.a = r0.asg[1], !.o = r0.asg[1],
                                   !.linked = TRUE, !.msgs = h.msgs],
                        s.else_body[1])
        ELSE [ck EXCEPT !.msgs = h.msgs])

\* A variant of the handlers of visit_try_stmt in which the handlers are
\* walked from the state at the end of the try body.
TryHandlersFromBody(ck, s, r0) ==
    TryElse(ck, s, r0,
        HandlerLoop([ck EXCEPT !.msgs = r0.msgs,
                               !.a = IF r0.asg = None THEN ck.a ELSE r0.asg[1]],
                    s, 1, <<>>))

\* The handlers of visit_try_stmt.
TryHandlers(ck, s, r0) ==
    TryElse(ck, s, r0, HandlerLoop([ck EXCEPT !.msgs = r0.msgs], s, 1, <<>>))

\* _UsageChecker.visit_try_stmt
visit_try_stmt(ck, s) ==
    TryHandlers(ck, s, _get_block_assignments(ck, Some(s.body), {}))

\* _UsageChecker.visit_assignment_stmt: the names of the targets are
\* recorded (_get_locals of the statement collects those of its lvalues),
\* then TraverserVisitor.visit_assignment_stmt visits the right-hand side
\* and the targets.
visit_assignment_stmt(ck, s) ==
    LET names == UNION {_get_lvalues(s.lvalues[i]) : i \in DOMAIN s.lvalues}
    IN  VisitExprs(VisitExpr(RecordAssignments(ck, names), s.rvalue), s.lvalues)

\* _UsageChecker.visit_del_stmt: TraverserVisitor.visit_del_stmt visits the
\* target, then its names are recorded as deleted.
visit_del_stmt(ck, s) ==
    RecordDeletions(VisitExpr(ck, s.expr), _get_lvalue_names(s.expr))

\* _UsageChecker.visit_func_def: a nested definition is not entered.
visit_func_def(ck, s) == _record_assignment(ck, s.name)

\* _UsageChecker has no visit_operator_assignment_stmt: the visit is that
\* of TraverserVisitor, which visits the right-hand side and the target.
visit_operator_assignment_stmt(ck, s) ==
    VisitExpr(VisitExpr(ck, s.rvalue), s.lvalue)

RECURSIVE SetAll(_, _)
\* for x in names: self.assignments[x] = True
SetAll(ck, names) ==
    IF names = {} THEN ck
    ELSE LET n == CHOOSE n \in names : TRUE
         IN  SetAll(SetInPlace(ck, n, TRUE), names \ {n})

RECURSIVE WithLoop(_, _, _)
\* The loop of _UsageChecker.visit_with_stmt from position i: the
\* expression is visited, the names of a target get the entry True,
\* whether they are locals or not, and the target is visited.
WithLoop(ck, s, i) ==
    IF i > Len(s.expr_list) THEN ck
    ELSE WithLoop(
            IF s.target[i] = None THEN VisitExpr(ck, s.expr_list[i])
            ELSE VisitExpr(SetAll(VisitExpr(ck, s.expr_list[i]),
                                  _get_lvalue_names(s.target[i][1])),
                           s.target[i][1]),
            s, i + 1)

\* _UsageChecker.visit_with_stmt: then self walks the body.
visit_with_stmt(ck, s) == VisitBlock(WithLoop(ck, s, 1), s.body)

\* One statement accepted by a _UsageChecker.
VisitStmt(ck, s) ==
    CASE s.kind = "assign" -> visit_assignment_stmt(ck, s)
      [] s.kind = "opassign" -> visit_operator_assignment_stmt(ck, s)
      [] s.kind = "expr" -> VisitExpr(ck, s.expr)
      [] s.kind = "del" -> visit_del_stmt(ck, s)
      [] s.kind = "return" ->
            IF s.value = None THEN ck ELSE VisitExpr(ck, s.value[1])
      [] s.kind = "if" -> visit_if_stmt(ck, s)
      [] s.kind = "while" -> visit_while_stmt(ck, s)
      [] s.kind = "for" -> visit_for_stmt(ck, s)
      [] s.kind = "try" -> visit_try_stmt(ck, s)
      [] s.kind = "funcdef" -> visit_func_def(ck, s)
      [] s.kind = "with" -> visit_with_stmt(ck, s)
      [] OTHER -> ck

(***************************************************************************)
(* LocalsCollector and UsageChecker.__init__                               *)
(***************************************************************************)

RECURSIVE CollectStmt(_)
RECURSIVE CollectBlock(_)

\* LocalsCollector over a block: the union over its statements.
CollectBlock(b) == UNION {CollectStmt(b[i]) : i \in DOMAIN b}

\* LocalsCollector over one statement: the keys added to self.locals.
\* Assignment targets, for indices, handler names and del targets are
\* collected; a nested FuncDef is not entered and its name not collected.
CollectStmt(s) ==
    CASE s.kind = "with" ->
            UNION {IF s.target[i] = None THEN {} ELSE _get_lvalues(s.target[i][1])
                   : i \in DOMAIN s.target}
            \cup CollectBlock(s.body)
      [] s.kind = "assign" ->
            UNION {_get_lvalues(s.lvalues[i]) : i \in DOMAIN s.lvalues}
      [] s.kind = "opassign" -> _get_lvalues(s.lvalue)
      [] s.kind = "del" -> _get_lvalues(s.expr)
      [] s.kind = "if" ->
            UNION {CollectBlock(s.body_list[i]) : i \in DOMAIN s.body_list}
            \cup (IF s.else_body = None THEN {} ELSE CollectBlock(s.else_body[1]))
      [] s.kind = "while" ->
            CollectBlock(s.body)
            \cup (IF s.else_body = None THEN {} ELSE CollectBlock(s.else_body[1]))
      [] s.kind = "for" ->
            _get_lvalues(s.index) \cup CollectBlock(s.body)
            \cup (IF s.else_body = None THEN {} ELSE CollectBlock(s.else_body[1]))
      [] s.kind = "try" ->
            UNION {IF s.vars[i] = None THEN {} ELSE _get_lvalues(s.vars[i][1])
                   : i \in DOMAIN s.vars}
            \cup CollectBlock(s.body)
            \cup UNION {CollectBlock(s.handlers[i]) : i \in DOMAIN s.handlers}
            \cup (IF s.else_body = None THEN {} ELSE CollectBlock(s.else_body[1]))
            \cup (IF s.finally_body = None THEN {}
                  ELSE CollectBlock(s.finally_body[1]))
      [] OTHER -> {}

\* UsageChecker.__init__ given what _get_locals(node) collected, the
\* function's arg_names and what _get_globals(node) collected.  `locals`
\* is the collector's dict: locals.add and locals.discard raise
\* AttributeError, so the constructor completes only when there is neither
\* a bound name nor a global name.
UsageCheckerInit(collected, bound_names, global_names) ==
    IF bound_names # {} \/ global_names # {}
    THEN [crashed |-> TRUE, locals |-> {}, assignments |-> <<>>]
    ELSE [crashed |-> FALSE, locals |-> collected,
          assignments |-> [name \in collected |-> name \in bound_names]]

(***************************************************************************)
(* mypy/literals.py: literal, literal_hash, subkeys                        *)
(*                                                                         *)
(* Further expressions:                                                    *)
(*   FloatExpr / ComplexExpr  [kind |-> "float" / "complex", value]        *)
(*   StrExpr    [kind |-> "str", value, from_python_3]                     *)
(*   BytesExpr / UnicodeExpr  [kind |-> "bytes" / "unicode", value]        *)
(*   NameExpr with its node   [kind |-> "name", name, fullname, node]      *)
(*   StarExpr / MemberExpr / UnaryExpr  [kind, expr] with name / op        *)
(*   OpExpr     [kind |-> "op", op, left, right]                           *)
(*   ComparisonExpr [kind |-> "comparison", operators, operands]           *)
(*   ListExpr / SetExpr  [kind |-> "list" / "set", items]                  *)
(*   DictExpr   [kind |-> "dict", pairs]   (pairs of Optional key, value)  *)
(*   IndexExpr  [kind |-> "index", base, index]                            *)
(*   SliceExpr / LambdaExpr  [kind |-> "slice" / "lambda", expr]           *)
(*                                                                         *)
(* A Key is a Python tuple: a sequence of elements.  An element is a       *)
(* string [scalar |-> s], a bool [flag |-> b], a literal's value           *)
(* [value |-> v], None [none |-> TRUE], or a tuple [tuple |-> k].  Python  *)
(* compares numbers by value, whatever their type: the value of an int,    *)
(* float or complex literal is its real and imaginary part; the value of   *)
(* a str, bytes or unicode literal is its text.                            *)
(***************************************************************************)

LITERAL_YES == 2

LITERAL_TYPE == 1

LITERAL_NO == 0

Scalar(s) == [scalar |-> s]

Flag(b) == [flag |-> b]

Number(re, im) == [value |-> [re |-> re, im |-> im]]

Text(s) == [value |-> [s |-> s]]

\* An Optional[Key] as an element of a tuple.
Element(k) == IF k = None THEN [none |-> TRUE] ELSE [tuple |-> k]

\* isinstance(elt, tuple)
IsTuple(elt) == "tuple" \in DOMAIN elt

\* subkeys: the elements of a key that are tuples.
subkeys(key) ==
    LET tuples == SelectSeq(key, IsTuple)
    IN  [i \in DOMAIN tuples |-> tuples[i].tuple]

\* min(...) over the values of a non-empty sequence of integers.
MinOf(ns) == CHOOSE n \in {ns[i] : i \in DOMAIN ns} :
                \A i \in DOMAIN ns : n <= ns[i]

RECURSIVE literal(_)
RECURSIVE literal_hash(_)

\* A variant of _Hasher.seq_expr that builds the key whatever the items.
SeqExprAlways(e, name) ==
    <<Scalar(name)>>
    \o [i \in DOMAIN e.items |-> Element(literal_hash(e.items[i]))]

\* _Hasher.seq_expr
seq_expr(e, name) ==
    IF \A i \in DOMAIN e.items : literal(e.items[i]) # LITERAL_NO
    THEN <<Scalar(name)>>
         \o [i \in DOMAIN e.items |-> Element(literal_hash(e.items[i]))]
    ELSE None

\* _Hasher.visit_dict_expr; a pair is (a, b), a is None for `**b`.
visit_dict_expr(e) ==
    IF \A i \in DOMAIN e.pairs :
          /\ e.pairs[i][1] # None
          /\ literal(e.pairs[i][1][1]) = LITERAL_YES
          /\ literal(e.pairs[i][2]) = LITERAL_YES
    THEN <<Scalar("Dict")>>
         \o [i \in DOMAIN e.pairs |->
               [tuple |->
                  <<IF e.pairs[i][1] # None
                    THEN Element(literal_hash(e.pairs[i][1][1]))
                    ELSE [none |-> TRUE],
                    Element(literal_hash(e.pairs[i][2]))>>]]
    ELSE None

\* _Hasher.visit_index_expr
visit_index_expr(e) ==
    IF literal(e.index) = LITERAL_YES
    THEN <<Scalar("Index"), Element(literal_hash(e.base)),
           Element(literal_hash(e.index))>>
    ELSE None

\* _Hasher.visit_comparison_expr
visit_comparison_expr(e) ==
    <<Scalar("Comparison")>>
    \o [i \in DOMAIN e.operators |-> Scalar(e.operators[i])]
    \o [i \in DOMAIN e.operands |-> Element(literal_hash(e.operands[i]))]

\* literal_hash: e.accept(_hasher); None for every kind whose visit
\* method returns None.
literal_hash(e) ==
    CASE e.kind \in {"int", "float"} -> <<Scalar("Literal"), Number(e.value, 0)>>
      [] e.kind = "complex" -> <<Scalar("Literal"), Number(0, e.value)>>
      [] e.kind = "str" ->
            <<Scalar("Literal"), Text(e.value), Flag(e.from_python_3)>>
      [] e.kind \in {"bytes", "unicode"} -> <<Scalar("Literal"), Text(e.value)>>
      [] e.kind = "star" -> <<Scalar("Star"), Element(literal_hash(e.expr))>>
      [] e.kind = "name" -> <<Scalar("Var"), Scalar(e.node)>>
      [] e.kind = "member" ->
            <<Scalar("Member"), Element(literal_hash(e.expr)), Scalar(e.name)>>
      [] e.kind = "op" ->
            <<Scalar("Binary"), Scalar(e.op), Element(literal_hash(e.left)),
              Element(literal_hash(e.right))>>
      [] e.kind = "comparison" -> visit_comparison_expr(e)
      [] e.kind = "unary" ->
            <<Scalar("Unary"), Scalar(e.op), Element(literal_hash(e.expr))>>
      [] e.kind = "list" -> seq_expr(e, "List")
      [] e.kind = "tuple" -> seq_expr(e, "Tuple")
      [] e.kind = "set" -> seq_expr(e, "Set")
      [] e.kind = "dict" -> visit_dict_expr(e)
      [] e.kind = "index" -> visit_index_expr(e)
      [] OTHER -> None

\* literal: the classification of an expression.
literal(e) ==
    CASE e.kind = "comparison" ->
            MinOf([i \in DOMAIN e.operands |-> literal(e.operands[i])])
      [] e.kind = "op" -> MinOf(<<literal(e.left), literal(e.right)>>)
      [] e.kind \in {"member", "unary", "star"} -> literal(e.expr)
      [] e.kind = "index" ->
            IF literal(e.index) = LITERAL_YES THEN literal(e.base)
            ELSE LITERAL_NO
      [] e.kind = "name" -> LITERAL_TYPE
      [] e.kind \in {"int", "float", "complex", "str", "bytes", "unicode"} ->
            LITERAL_YES
      [] OTHER -> IF literal_hash(e) # None THEN LITERAL_YES ELSE LITERAL_NO

(***************************************************************************)
(* The syntax trees the checker is run on                                  *)
(***************************************************************************)

\* Integer literals are 0 .. MaxInt.
MaxInt == 2

\* The longest block of a compound statement has MaxBlockLen statements.
MaxBlockLen == 2

\* The names a function may bind.
Vars == {"x", "y"}

NameExpr(n) == [kind |-> "name", name |-> n, fullname |-> n]

TrueExpr == [kind |-> "name", name |-> "True", fullname |-> "builtins.True"]

FalseExpr == [kind |-> "name", name |-> "False", fullname |-> "builtins.False"]

IntExpr(v) == [kind |-> "int", value |-> v]

CallExpr(callee, args, analyzed) ==
    [kind |-> "call", callee |-> callee, args |-> args, analyzed |-> analyzed]

TupleExpr(items) == [kind |-> "tuple", items |-> items]

AssignmentStmt(lvalue, rvalue) ==
    [kind |-> "assign", lvalues |-> <<lvalue>>, rvalue |-> rvalue]

OperatorAssignmentStmt(lvalue, rvalue) ==
    [kind |-> "opassign", lvalue |-> lvalue, rvalue |-> rvalue]

ExpressionStmt(e) == [kind |-> "expr", expr |-> e]

DelStmt(e) == [kind |-> "del", expr |-> e]

ReturnStmt(value) == [kind |-> "return", value |-> value]

RaiseStmt == [kind |-> "raise"]

BreakStmt == [kind |-> "break"]

ContinueStmt == [kind |-> "continue"]

FuncDef(n) == [kind |-> "funcdef", name |-> n]

IfStmt(expr_list, body_list, else_body) ==
    [kind |-> "if", expr_list |-> expr_list, body_list |-> body_list,
     else_body |-> else_body]

WhileStmt(expr, body, else_body) ==
    [kind |-> "while", expr |-> expr, body |-> body, else_body |-> else_body]

ForStmt(index, expr, body, else_body) ==
    [kind |-> "for", index |-> index, expr |-> expr, body |-> body,
     else_body |-> else_body]

TryStmt(body, types, vars, handlers, else_body, finally_body) ==
    [kind |-> "try", body |-> body, types |-> types, vars |-> vars,
     handlers |-> handlers, else_body |-> else_body,
     finally_body |-> finally_body]

\* Conditions: True, False, the integer literals, and reads of names.
Conds ==
    {TrueExpr, FalseExpr} \cup {IntExpr(i) : i \in 0..MaxInt}
    \cup {NameExpr(v) : v \in Vars}

\* Statements without a jump, as they stand inside a block.
Plain ==
    {AssignmentStmt(NameExpr(v), IntExpr(1)) : v \in Vars}
    \cup {ExpressionStmt(NameExpr("x")), DelStmt(NameExpr("x"))}

\* The jumps of a block outside a loop, and of a loop's body.
Jumps == {ReturnStmt(None), RaiseStmt}

LoopJumps == {BreakStmt, ContinueStmt, ReturnStmt(None)}

RECURSIVE SeqsUpTo(_, _)
\* The non-empty sequences over S of length at most n.
SeqsUpTo(S, n) ==
    IF n = 0 THEN {}
    ELSE {<<s>> : s \in S}
         \cup {<<s>> \o b : s \in S, b \in SeqsUpTo(S, n - 1)}

\* One-statement blocks, with every jump of their place.
Short == {<<s>> : s \in Plain \cup Jumps}

ShortLoop == {<<s>> : s \in Plain \cup LoopJumps}

\* Blocks of up to MaxBlockLen statements.
Long == SeqsUpTo(Plain \cup {ReturnStmt(None)}, MaxBlockLen)

LongLoop == SeqsUpTo(Plain \cup {BreakStmt}, MaxBlockLen)

\* Blocks that are one if statement over one-statement blocks.
Nested ==
    {<<IfStmt(<<c>>, <<b>>, e)>> :
        c \in {NameExpr("y"), TrueExpr, FalseExpr},
        b \in Short,
        e \in {None, Some(<<ReturnStmt(None)>>),
                     Some(<<AssignmentStmt(NameExpr("x"), IntExpr(1))>>),
                     Some(<<ExpressionStmt(NameExpr("x"))>>)}}

\* Blocks that are one try statement with one handler.
NestedTry ==
    {<<[kind |-> "try", body |-> b, types |-> <<None>>, vars |-> <<None>>,
        handlers |-> <<h>>, else_body |-> None, finally_body |-> f]>> :
        b \in {<<ReturnStmt(None)>>, <<AssignmentStmt(NameExpr("x"), IntExpr(1))>>},
        h \in {<<RaiseStmt>>, <<AssignmentStmt(NameExpr("x"), IntExpr(1))>>},
        f \in {None, Some(<<ReturnStmt(None)>>)}}

\* Loop bodies that are one if statement without else over a jump.
NestedLoop ==
    {<<IfStmt(<<NameExpr("y")>>, <<<<j>>>>, None)>> :
        j \in {BreakStmt, ContinueStmt}}

OptShort == {None} \cup {Some(b) : b \in Short}

\* An else part: none, a jump, an assignment, a read.
OptElse ==
    {None, Some(<<ReturnStmt(None)>>),
     Some(<<AssignmentStmt(NameExpr("x"), IntExpr(1))>>),
     Some(<<ExpressionStmt(NameExpr("x"))>>)}

\* Handlers of the try statements whose else is long.
FewBlocks ==
    {<<AssignmentStmt(NameExpr("y"), IntExpr(1))>>,
     <<ExpressionStmt(NameExpr("x"))>>, <<ReturnStmt(None)>>}

\* Conditions of the statements whose blocks are long.
FewConds == {TrueExpr, FalseExpr, NameExpr("y")}

AssignmentStmts ==
    {AssignmentStmt(NameExpr(v), e) :
        v \in Vars,
        e \in {IntExpr(i) : i \in 0..MaxInt} \cup {NameExpr(w) : w \in Vars}}
    \cup {AssignmentStmt(TupleExpr(<<NameExpr("x"), NameExpr("y")>>),
                         NameExpr("x"))}

\* x += 1, x += y
OperatorAssignmentStmts ==
    {OperatorAssignmentStmt(NameExpr(v), e) :
        v \in Vars, e \in {IntExpr(1)} \cup {NameExpr(w) : w \in Vars}}

ExpressionStmts ==
    {ExpressionStmt(NameExpr(v)) : v \in Vars}
    \cup {ExpressionStmt(CallExpr("f", <<NameExpr(v)>>, "none")) : v \in Vars}
    \cup {ExpressionStmt(CallExpr("reveal_type", <<NameExpr(v)>>, "reveal"))
          : v \in Vars}
    \cup {ExpressionStmt(CallExpr("sys.exit", <<>>, "none"))}

GeneratorExpr(indices, sequences, condlists, left_expr) ==
    [kind |-> "generator", indices |-> indices, sequences |-> sequences,
     condlists |-> condlists, left_expr |-> left_expr]

ListComprehension(generator) == [kind |-> "listcomp", generator |-> generator]

\* (l for i in xs), (l for i in xs if c)
GeneratorExprs ==
    {GeneratorExpr(<<NameExpr(i)>>, <<NameExpr(xs)>>, <<conds>>, NameExpr(l)) :
        i \in Vars, xs \in Vars, l \in Vars,
        conds \in {<<>>} \cup {<<NameExpr(c)>> : c \in Vars}}

\* Generator expressions and list comprehensions as statements.
Comprehensions ==
    {ExpressionStmt(g) : g \in GeneratorExprs}
    \cup {ExpressionStmt(ListComprehension(g)) : g \in GeneratorExprs}

DelStmts == {DelStmt(NameExpr(v)) : v \in Vars}

ReturnStmts ==
    {ReturnStmt(None)} \cup {ReturnStmt(Some(NameExpr(v))) : v \in Vars}

FuncDefs == {FuncDef(v) : v \in Vars}

\* if statements with one condition, and with an elif.
IfStmts ==
    {IfStmt(<<c>>, <<b>>, e) : c \in Conds, b \in Long \cup Nested, e \in OptElse}
    \cup {IfStmt(<<c>>, <<b>>, Some(e)) : c \in FewConds, b \in Short, e \in Long}
    \cup {IfStmt(<<c1, c2>>, <<b1, b2>>, e) :
             c1 \in FewConds, c2 \in FewConds,
             b1 \in Short, b2 \in Short, e \in OptShort}
    \cup {IfStmt(<<NameExpr("y")>>, <<b>>, e) :
             b \in NestedTry,
             e \in {None, Some(<<AssignmentStmt(NameExpr("x"), IntExpr(1))>>)}}

WhileStmts ==
    {WhileStmt(c, b, e) : c \in FewConds, b \in LongLoop, e \in OptShort}
    \cup {WhileStmt(c, b, e) : c \in Conds, b \in ShortLoop, e \in OptShort}
    \cup {WhileStmt(c, b, None) :
             c \in {TrueExpr, NameExpr("y")}, b \in NestedLoop}

ForStmts ==
    {ForStmt(NameExpr(i), NameExpr(xs), b, e) :
        i \in Vars, xs \in Vars, b \in LongLoop, e \in OptElse}
    \cup {ForStmt(NameExpr(i), NameExpr(xs), b, e) :
            i \in Vars, xs \in Vars, b \in ShortLoop, e \in OptShort}

\* A handler clause: `except:` or `except E as v:`.
Clauses ==
    {[type |-> None, var |-> None]}
    \cup {[type |-> Some(NameExpr("E")), var |-> Some(NameExpr(v))] : v \in Vars}

WithStmt(expr_list, target, body) ==
    [kind |-> "with", expr_list |-> expr_list, target |-> target,
     body |-> body]

\* with m: ..., with m as v: ...
WithStmts ==
    {WithStmt(<<NameExpr(m)>>, <<tg>>, b) :
        m \in Vars, tg \in {None} \cup {Some(NameExpr(v)) : v \in Vars},
        b \in Short}

TryStmts ==
    \* try / except, the handler long
    {TryStmt(b, <<c.type>>, <<c.var>>, <<h>>, None, None) :
        b \in Short, c \in Clauses, h \in Long}
    \* try / except / else, the else long or an if statement
    \cup {TryStmt(b, <<None>>, <<None>>, <<h>>, Some(e), None) :
            b \in Short, h \in FewBlocks, e \in Long \cup Nested}
    \* try / finally and try / except / finally
    \cup {TryStmt(b, <<>>, <<>>, <<>>, None, Some(f)) : b \in Short, f \in Long}
    \cup {TryStmt(b, <<None>>, <<None>>, <<h>>, None, Some(f)) :
            b \in Short, h \in Short, f \in Short}
    \* try with two handlers
    \cup {TryStmt(b, <<c.type, None>>, <<c.var, None>>, <<h1, h2>>, None, None) :
            b \in Short, c \in Clauses, h1 \in Short, h2 \in Short}

(***************************************************************************)
(* What the walk of a _UsageChecker does to the tree                       *)
(***************************************************************************)

RECURSIVE WalkedStmt(_)
RECURSIVE WalkedBlock(_)

\* The block after _get_block_assignments: _is_end_unreachable has walked
\* it, and then a _UsageChecker when its end is reachable.
GotBlock(b) ==
    IF _is_end_unreachable(b) THEN ReachedBlock(FALSE, b)
    ELSE WalkedBlock(ReachedBlock(FALSE, b))

\* The block after a _UsageChecker has walked it.
WalkedBlock(b) == [i \in DOMAIN b |-> WalkedStmt(b[i])]

\* The loop of visit_if_stmt gets to position i and keeps the body there.
Kept(s, i) ==
    /\ i <= Min(Len(s.expr_list), Len(s.body_list))
    /\ ~_is_false(s.expr_list[i])
    /\ \A j \in 1..(i - 1) : ~_is_true(s.expr_list[j])

\* The loop of visit_if_stmt ends with else_is_unreachable not set.
ElseKept(s) ==
    \A j \in 1..Min(Len(s.expr_list), Len(s.body_list)) :
        ~_is_true(s.expr_list[j])

\* The else body after _merge_blocks, when it was among the blocks.
GotElse(s, o, kept) ==
    IF kept /\ s.else_body # None
    THEN SetElse(o, GotBlock(s.else_body[1]))
    ELSE o

\* The statement after a _UsageChecker has visited it: the blocks that
\* _merge_blocks is given go through _get_block_assignments.
WalkedStmt(s) ==
    CASE s.kind = "if" ->
            GotElse(s,
                [s EXCEPT !.body_list =
                    [i \in DOMAIN @ |->
                        IF Kept(s, i) THEN GotBlock(@[i]) ELSE @[i]]],
                ElseKept(s))
      [] s.kind \in {"while", "for"} ->
            [s EXCEPT
                !.body = GotBlock(@),
                !.else_body =
                    IF @ # None /\ ~(s.kind = "while" /\ _is_true(s.expr))
                    THEN Some(GotBlock(@[1]))
                    ELSE @]
      \* visit_try_stmt: the handlers are walked and then given to
      \* _is_end_unreachable; the else body is walked when the end of the
      \* body is reachable.
      [] s.kind = "try" ->
            [s EXCEPT
                !.body = GotBlock(@),
                !.handlers =
                    [i \in DOMAIN @ |-> ReachedBlock(FALSE, WalkedBlock(@[i]))],
                !.else_body =
                    IF @ # None /\ ~_is_end_unreachable(s.body)
                    THEN Some(WalkedBlock(@[1]))
                    ELSE @,
                !.finally_body =
                    IF @ = None THEN @ ELSE Some(WalkedBlock(@[1]))]
      [] s.kind = "with" -> [s EXCEPT !.body = WalkedBlock(@)]
      [] OTHER -> s

(***************************************************************************)
(* The expressions literal_hash is applied to                              *)
(***************************************************************************)

\* The longest list, tuple or set literal has MaxItems items.
MaxItems == 2

FloatExpr(v) == [kind |-> "float", value |-> v]

ComplexExpr(v) == [kind |-> "complex", value |-> v]

StrExpr(v, from_python_3) ==
    [kind |-> "str", value |-> v, from_python_3 |-> from_python_3]

BytesExpr(v) == [kind |-> "bytes", value |-> v]

UnicodeExpr(v) == [kind |-> "unicode", value |-> v]

\* A NameExpr with the declaration it resolves to.
ResolvedNameExpr(n, node) ==
    [kind |-> "name", name |-> n, fullname |-> n, node |-> node]

StarExpr(e) == [kind |-> "star", expr |-> e]

MemberExpr(e, name) == [kind |-> "member", expr |-> e, name |-> name]

UnaryExpr(op, e) == [kind |-> "unary", op |-> op, expr |-> e]

OpExpr(op, left, right) ==
    [kind |-> "op", op |-> op, left |-> left, right |-> right]

ComparisonExpr(operators, operands) ==
    [kind |-> "comparison", operators |-> operators, operands |-> operands]

ListExpr(items) == [kind |-> "list", items |-> items]

SetExpr(items) == [kind |-> "set", items |-> items]

DictExpr(pairs) == [kind |-> "dict", pairs |-> pairs]

IndexExpr(base, index) == [kind |-> "index", base |-> base, index |-> index]

SliceExpr(e) == [kind |-> "slice", expr |-> e]

LambdaExpr(e) == [kind |-> "lambda", expr |-> e]

\* Plain literals: 1, 1.0, 1j, "a", b"a", u"a".
Literals ==
    {IntExpr(0), IntExpr(1), FloatExpr(1), ComplexExpr(1),
     StrExpr("a", TRUE), StrExpr("a", FALSE), BytesExpr("a"), UnicodeExpr("a")}

\* The name x, resolving to one declaration or to another.
Names == {ResolvedNameExpr("x", d) : d \in {"d1", "d2"}}

\* Expressions of the kinds that have no key, with contents.
Unsupported ==
    {CallExpr("f", <<>>, "none"), CallExpr("f", <<IntExpr(1)>>, "none"),
     SliceExpr(IntExpr(1)), LambdaExpr(IntExpr(1))}

\* The items of containers and the operands of operators.
Items ==
    {IntExpr(1), ResolvedNameExpr("x", "d1"), CallExpr("f", <<>>, "none"),
     MemberExpr(CallExpr("f", <<>>, "none"), "m")}

Operators(S) ==
    {StarExpr(e) : e \in S} \cup {MemberExpr(e, "m") : e \in S}
    \cup {UnaryExpr("-", e) : e \in S}
    \cup {OpExpr("+", l, r) : l \in S, r \in S}
    \cup {ComparisonExpr(<<"<">>, <<l, r>>) : l \in S, r \in S}
    \cup {IndexExpr(b, i) : b \in S, i \in S}

RECURSIVE ItemsUpTo(_, _)
\* The sequences over S of length at most n.
ItemsUpTo(S, n) ==
    IF n = 0 THEN {<<>>}
    ELSE {<<>>} \cup {<<s>> \o b : s \in S, b \in ItemsUpTo(S, n - 1)}

Containers(S) ==
    {ListExpr(items) : items \in ItemsUpTo(S, MaxItems)}
    \cup {TupleExpr(items) : items \in ItemsUpTo(S, MaxItems)}
    \cup {SetExpr(items) : items \in ItemsUpTo(S, MaxItems)}
    \cup {DictExpr(<<>>)}
    \cup {DictExpr(<<<<k, v>>>>) :
            k \in {None} \cup {Some(s) : s \in S}, v \in S}

\* Containers of containers and operators over containers.
Compound ==
    {TupleExpr(<<c>>) :
        c \in {ListExpr(<<IntExpr(1)>>), ListExpr(<<CallExpr("f", <<>>, "none")>>),
               DictExpr(<<<<Some(IntExpr(1)), IntExpr(1)>>>>)}}
    \cup {MemberExpr(c, "m") :
            c \in {TupleExpr(<<IntExpr(1)>>),
                   TupleExpr(<<CallExpr("f", <<>>, "none")>>)}}
    \cup {DictExpr(<<<<Some(k), v>>>>) :
            k \in {TupleExpr(<<IntExpr(1)>>)},
            v \in {ListExpr(<<>>), ListExpr(<<ResolvedNameExpr("x", "d1")>>)}}

Expressions ==
    Literals \cup Names \cup Unsupported \cup Operators(Items)
    \cup Containers(Items) \cup Compound

(***************************************************************************)
(* The walk of one function body                                           *)
(***************************************************************************)

VARIABLES
    given,        \* what UsageChecker.__init__ was given: the names that
                  \* _get_locals collected, arg_names, and the names that
                  \* _get_globals collected
    crashed,      \* UsageChecker.__init__ raised
    locals,       \* UsageChecker.locals
    py3,          \* options.python_version >= (3,)
    assignments,  \* the assignments of the checker that walks the body
    stmt,         \* the statement of the body just visited, or None
    pre,          \* `assignments` before that statement
    msgs,         \* the diagnostics that statement gave to the sink
    last,         \* when the statement before it was a del: that statement
                  \* and `assignments` before it; else None
    tree,         \* that statement as the visit left it, or None
    lit           \* the calls of literal_hash made so far: for each, the
                  \* expression, its key and its classification

vars == <<given, crashed, locals, py3, assignments, stmt, pre, msgs, last, tree,
          lit>>

\* UsageChecker(func_def, func_def.arg_names, msg, options), then
\* UsageChecker.visit_func_def makes the checker that walks the body.
Init ==
    \E collected \in SUBSET Vars, bound_names \in SUBSET {"p"},
       global_names \in SUBSET {"g"} :
        LET u == UsageCheckerInit(collected, bound_names, global_names)
        IN  /\ given = [collected |-> collected, bound_names |-> bound_names,
                         global_names |-> global_names]
            /\ crashed = u.crashed
            /\ locals = u.locals
            /\ assignments = u.assignments
            /\ py3 \in BOOLEAN
            /\ stmt = None
            /\ pre = u.assignments
            /\ msgs = <<>>
            /\ last = None
            /\ tree = None
            /\ lit = <<>>

\* The checker that walks the body, about to visit a statement.
Checker ==
    [locals |-> locals, py3 |-> py3, a |-> assignments, msgs |-> <<>>,
     o |-> assignments, linked |-> TRUE]

\* The walk stands before a statement of the body.
AtStatement == ~crashed /\ stmt = None

\* The next statement of the body is s, and ck is the checker after it.
\* LocalsCollector has collected every name a statement of the body binds.
Visited(s, ck) ==
    /\ CollectStmt(s) \subseteq locals
    /\ assignments' = ck.a
    /\ msgs' = ck.msgs
    /\ stmt' = Some(s)
    /\ pre' = assignments
    /\ tree' = Some(WalkedStmt(s))
    /\ UNCHANGED <<given, crashed, locals, py3, last, lit>>

AcceptAssignmentStmt ==
    AtStatement /\ \E s \in AssignmentStmts : Visited(s, visit_assignment_stmt(Checker, s))

AcceptOperatorAssignmentStmt ==
    AtStatement /\ \E s \in OperatorAssignmentStmts :
        Visited(s, visit_operator_assignment_stmt(Checker, s))

AcceptExpressionStmt ==
    AtStatement /\ \E s \in ExpressionStmts : Visited(s, VisitExpr(Checker, s.expr))

\* Below version 3 LocalsCollector.visit_list_comprehension has collected
\* the index names of a list comprehension.
AcceptComprehension ==
    AtStatement /\ \E s \in Comprehensions :
        /\ (~py3 /\ s.expr.kind = "listcomp")
              => IndexNames(s.expr.generator) \subseteq locals
        /\ Visited(s, VisitExpr(Checker, s.expr))

AcceptDelStmt ==
    AtStatement /\ \E s \in DelStmts : Visited(s, visit_del_stmt(Checker, s))

AcceptReturnStmt ==
    AtStatement /\ \E s \in ReturnStmts \cup {RaiseStmt} : Visited(s, VisitStmt(Checker, s))

AcceptFuncDef ==
    AtStatement /\ \E s \in FuncDefs : Visited(s, visit_func_def(Checker, s))

AcceptIfStmt ==
    AtStatement /\ \E s \in IfStmts : Visited(s, visit_if_stmt(Checker, s))

AcceptWhileStmt ==
    AtStatement /\ \E s \in WhileStmts : Visited(s, visit_while_stmt(Checker, s))

AcceptForStmt ==
    AtStatement /\ \E s \in ForStmts : Visited(s, visit_for_stmt(Checker, s))

AcceptTryStmt ==
    AtStatement /\ \E s \in TryStmts : Visited(s, visit_try_stmt(Checker, s))

AcceptWithStmt ==
    AtStatement /\ \E s \in WithStmts : Visited(s, visit_with_stmt(Checker, s))

\* TraverserVisitor.visit_block goes on to the next statement of the body.
NextStatement ==
    /\ stmt # None
    /\ stmt' = None
    /\ last' = IF stmt[1].kind = "del" THEN <<stmt[1], pre>> ELSE None
    /\ pre' = assignments
    /\ msgs' = <<>>
    /\ tree' = None
    /\ UNCHANGED <<given, crashed, locals, py3, assignments, lit>>

Next ==
    \/ NextStatement
    \/ AcceptAssignmentStmt
    \/ AcceptOperatorAssignmentStmt
    \/ AcceptExpressionStmt
    \/ AcceptComprehension
    \/ AcceptDelStmt
    \/ AcceptReturnStmt
    \/ AcceptFuncDef
    \/ AcceptIfStmt
    \/ AcceptWhileStmt
    \/ AcceptForStmt
    \/ AcceptTryStmt
    \/ AcceptWithStmt

Spec == Init /\ [][Next]_vars

(***************************************************************************)
(* Calls of literal_hash, literal and subkeys                              *)
(***************************************************************************)

\* No function is being checked.
InitLiterals ==
    /\ given = [collected |-> {}, bound_names |-> {}, global_names |-> {}]
    /\ crashed = FALSE
    /\ locals = {}
    /\ assignments = <<>>
    /\ py3 = TRUE
    /\ stmt = None
    /\ pre = <<>>
    /\ msgs = <<>>
    /\ last = None
    /\ tree = None
    /\ lit = <<>>

\* literal_hash(e), literal(e) and subkeys of the key are computed for an
\* expression e.
CallLiteralHash ==
    /\ Len(lit) < 2
    /\ \E e \in Expressions :
          lit' = Append(lit,
                    [e |-> e, key |-> literal_hash(e), class |-> literal(e),
                     subkeys |-> IF literal_hash(e) = None THEN <<>>
                                 ELSE subkeys(literal_hash(e))])
    /\ UNCHANGED <<given, crashed, locals, py3, assignments, stmt, pre, msgs,
                   last, tree>>

NextLiterals == CallLiteralHash

SpecLiterals == InitLiterals /\ [][NextLiterals]_vars

(***************************************************************************)
(* What the claims speak of                                                *)
(***************************************************************************)

\* The checker as it stood before the statement just visited.
PreChecker ==
    [locals |-> locals, py3 |-> py3, a |-> pre, msgs |-> <<>>, o |-> pre,
     linked |-> TRUE]

\* A statement of the given kind has just been visited.
Just(kind) == stmt # None /\ stmt[1].kind = kind

\* A condition that is provably true (True or 1), provably false (False or 0).
ProvablyTrue(e) == e \in {TrueExpr, IntExpr(1)}

ProvablyFalse(e) == e \in {FalseExpr, IntExpr(0)}

\* The statement is a read of the name v and nothing else.
IsRead(s, v) == s = ExpressionStmt(NameExpr(v))

\* The number of diagnostics for the name v in a sequence of diagnostics.
Count(ms, v) == Cardinality({i \in DOMAIN ms : ms[i] = v})

\* Every local assigned.
AllAssigned == [v \in locals |-> TRUE]

\* The assignment state at the end of a block that is analysed from a copy
\* of the state a, with the names in loop_vars marked assigned first.
EndOf(a, loop_vars, b) ==
    VisitBlock(RecordAssignments(NewChecker([PreChecker EXCEPT !.a = a]),
                                 loop_vars), b).a

\* The diagnostics of the reads in a block that is analysed from the state a.
ReadsOf(a, loop_vars, b) ==
    VisitBlock(RecordAssignments(NewChecker([PreChecker EXCEPT !.a = a]),
                                 loop_vars), b).msgs

\* The candidate paths through an if, while or for statement s, in order:
\* for each, whether it is live (not excluded by a literal condition), its
\* block (None for the fall-through path of a statement without else) and
\* the names marked assigned at its start.
Path(live, blk, loop_vars) == [live |-> live, blk |-> blk, loop_vars |-> loop_vars]

Candidates(s) ==
    CASE s.kind = "if" ->
            [i \in 1..Len(s.expr_list) |->
                Path(/\ ~ProvablyFalse(s.expr_list[i])
                     /\ \A j \in 1..(i - 1) : ~ProvablyTrue(s.expr_list[j]),
                     Some(s.body_list[i]), {})]
            \o <<Path(\A j \in 1..Len(s.expr_list) : ~ProvablyTrue(s.expr_list[j]),
                      s.else_body, {})>>
      [] s.kind = "while" ->
            <<Path(TRUE, Some(s.body), {}),
              Path(~ProvablyTrue(s.expr), s.else_body, {})>>
      [] s.kind = "for" ->
            <<Path(TRUE, Some(s.body), _get_lvalues(s.index)),
              Path(TRUE, s.else_body, {})>>

\* The live candidates whose end is reachable, as _is_end_unreachable
\* decides it: the contributors of the join.
Contributors(s) ==
    LET c == Candidates(s)
    IN  {i \in DOMAIN c :
            /\ c[i].live
            /\ c[i].blk = None \/ ~_is_end_unreachable(c[i].blk[1])}

\* The state at the end of candidate path i of s, analysed from `pre`.
PathEnd(s, i) ==
    LET c == Candidates(s)[i]
    IN  IF c.blk = None THEN pre ELSE EndOf(pre, c.loop_vars, c.blk[1])

(***************************************************************************)
(* C1  Every read of a name inside the function body is checked: when the  *)
(* name is a tracked local that the state at that point does not show as   *)
(* assigned, the read gets exactly one diagnostic.  For an if, while or    *)
(* for statement met in the state `pre`, the diagnostics are therefore     *)
(* those of its conditions followed by those of each live body walked      *)
(* from `pre`, whether or not the body ends in a jump.                     *)
(***************************************************************************)
RECURSIVE ReadsOfPaths(_, _)
ReadsOfPaths(s, i) ==
    IF i > Len(Candidates(s)) THEN <<>>
    ELSE LET c == Candidates(s)[i]
         IN  (IF c.live /\ c.blk # None
                 THEN ReadsOf(pre, c.loop_vars, c.blk[1]) ELSE <<>>)
             \o ReadsOfPaths(s, i + 1)

\* The diagnostics of the conditions the walk evaluates, in order.
RECURSIVE ReadsOfConditions(_, _)
ReadsOfConditions(es, dead) ==
    IF es = <<>> \/ dead THEN <<>>
    ELSE VisitExpr(PreChecker, Head(es)).msgs
         \o ReadsOfConditions(Tail(es), ProvablyTrue(Head(es)))

ExpectedReads(s) ==
    (IF s.kind = "if" THEN ReadsOfConditions(s.expr_list, FALSE)
     ELSE VisitExpr(PreChecker, s.expr).msgs)
    \o ReadsOfPaths(s, 1)

C1_EveryReadChecked ==
    Just("if") \/ Just("while") \/ Just("for") => msgs = ExpectedReads(stmt[1])

(***************************************************************************)
(* C2  After an if statement a tracked local is assigned if and only if    *)
(* it is assigned at the end of every contributing path.  A path           *)
(* contributes unless an earlier condition is provably true; the           *)
(* contributing paths are the bodies whose condition is not provably       *)
(* false and whose end is reachable, and the else body, or the             *)
(* fall-through path of a statement without else, which ends in the state  *)
(* before the statement.  Whether the end of a body is reachable is what   *)
(* _is_end_unreachable answers.                                            *)
(***************************************************************************)
C2_IfJoin ==
    Just("if") =>
        \A v \in locals :
            assignments[v] <=>
                \A i \in Contributors(stmt[1]) : PathEnd(stmt[1], i)[v]

\* An if/else with both paths contributing, and a local assigned at the end
\* of one of them only: it is unassigned afterwards.
C2_Witness ==
    /\ Just("if")
    /\ stmt[1].else_body # None
    /\ Cardinality(Contributors(stmt[1])) = 2
    /\ \E v \in locals :
          /\ ~pre[v] /\ ~assignments[v]
          /\ \E i \in Contributors(stmt[1]) : PathEnd(stmt[1], i)[v]

(***************************************************************************)
(* C3  Literal conditions are folded at the join of an if statement: a     *)
(* body whose condition is provably false is excluded, and after a         *)
(* provably true condition every later elif body and the else or           *)
(* fall-through path are excluded.  So when the first condition is         *)
(* provably true the state afterwards is the state at the end of the       *)
(* first body, be there an else or not; when the only condition is         *)
(* provably false it is the state at the end of the else body, or the      *)
(* state before the statement when there is no else.  A read of a local    *)
(* that the state shows as assigned gets no diagnostic.                    *)
(***************************************************************************)
C3_LiteralFolding ==
    /\ Just("if") /\ ProvablyTrue(stmt[1].expr_list[1])
       /\ ~_is_end_unreachable(stmt[1].body_list[1])
            => assignments = EndOf(pre, {}, stmt[1].body_list[1])
    /\ Just("if") /\ Len(stmt[1].expr_list) = 1
       /\ ProvablyFalse(stmt[1].expr_list[1])
            => assignments =
                  IF stmt[1].else_body = None THEN pre
                  ELSE IF _is_end_unreachable(stmt[1].else_body[1])
                       THEN AllAssigned
                       ELSE EndOf(pre, {}, stmt[1].else_body[1])
    /\ \A v \in locals :
          Just("expr") /\ IsRead(stmt[1], v) /\ pre[v] => msgs = <<>>

\* `if True: x = 1` without else, x unassigned before: x is assigned after.
C3_Witness ==
    /\ Just("if")
    /\ stmt[1] = IfStmt(<<TrueExpr>>,
                        <<<<AssignmentStmt(NameExpr("x"), IntExpr(1))>>>>, None)
    /\ "x" \in locals /\ ~pre["x"] /\ assignments["x"]

(***************************************************************************)
(* C10  A candidate path whose end is unreachable (it always ends in       *)
(* return, raise, break, continue or sys.exit(), as _is_end_unreachable    *)
(* decides) is dropped from the join of an if, while or for statement:     *)
(* the state afterwards is the conjunction over the remaining candidates.  *)
(* When none remains the code after the statement is unreachable and       *)
(* every tracked local is set to assigned.                                 *)
(***************************************************************************)
C10_UnreachableDropped ==
    Just("if") \/ Just("while") \/ Just("for") =>
        assignments =
            IF Contributors(stmt[1]) = {} THEN AllAssigned
            ELSE [v \in locals |->
                    \A i \in Contributors(stmt[1]) : PathEnd(stmt[1], i)[v]]

\* An if/else whose two bodies both end in a jump, with a local unassigned
\* before it: every local is assigned afterwards.
C10_Witness ==
    /\ Just("if")
    /\ stmt[1].else_body # None
    /\ Contributors(stmt[1]) = {}
    /\ \A i \in DOMAIN Candidates(stmt[1]) : Candidates(stmt[1])[i].live
    /\ \E v \in locals : ~pre[v]
    /\ assignments = AllAssigned

(***************************************************************************)
(* C4  For every for statement, with or without an else clause and         *)
(* whatever jumps end its body or else, the loop index and every local     *)
(* whose only assignments are inside the loop body is unassigned after     *)
(* the statement when it was unassigned before it, and a read of an        *)
(* unassigned local right after the statement gets a diagnostic.           *)
(***************************************************************************)
\* The loop index, and the locals assigned in the body and not in the else.
LoopNames(s) ==
    _get_lvalues(s.index)
    \cup (CollectBlock(s.body)
          \ (IF s.else_body = None THEN {} ELSE CollectBlock(s.else_body[1])))

\* A read of a local that the state shows as unassigned gets a diagnostic.
ReadOfUnassignedWarns ==
    \A v \in locals :
        Just("expr") /\ IsRead(stmt[1], v) /\ ~pre[v] => msgs = <<v>>

RECURSIVE ReadsOfHandlers(_, _)
ReadsOfHandlers(s, i) ==
    IF i > Len(s.handlers) THEN <<>>
    ELSE (IF s.types[i] = None THEN <<>>
          ELSE VisitExpr(PreChecker, s.types[i][1]).msgs)
         \o ReadsOf(pre, IF s.vars[i] = None THEN {} ELSE {s.vars[i][1].name},
                    s.handlers[i])
         \o ReadsOfHandlers(s, i + 1)

ReadsOfTryBody(s) == _get_block_assignments(PreChecker, Some(s.body), {}).msgs

C5_HandlerFromPreState ==
    Just("try") =>
        LET expected == ReadsOfTryBody(stmt[1]) \o ReadsOfHandlers(stmt[1], 1)
        IN  /\ Len(expected) <= Len(msgs)
            /\ SubSeq(msgs, 1, Len(expected)) = expected

\* `try: x = 1` with a handler that reads x, x unassigned before: the read
\* in the handler gets a diagnostic.
C5_Witness ==
    /\ Just("try")
    /\ stmt[1].body = <<AssignmentStmt(NameExpr("x"), IntExpr(1))>>
    /\ Len(stmt[1].handlers) = 1
    /\ stmt[1].handlers[1] = <<ExpressionStmt(NameExpr("x"))>>
    /\ ~pre["x"]
    /\ msgs = <<"x">>

(***************************************************************************)
(* C6  Deletion re-arms the check: after `del x` of a tracked local x, x   *)
(* is not assigned, and a read of x that follows the del with nothing in   *)
(* between gets a diagnostic, whether x was assigned before the del or     *)
(* not.                                                                    *)
(***************************************************************************)
C6_DelRearms ==
    /\ Just("del") =>
          \A v \in locals \cap _get_lvalues(stmt[1].expr) : ~assignments[v]
    /\ Just("expr") /\ last # None =>
          \A v \in locals \cap _get_lvalues(last[1].expr) :
              IsRead(stmt[1], v) => msgs = <<v>>

\* x was assigned, `del x`, then a read of x: the read gets a diagnostic.
C6_Witness ==
    /\ Just("expr")
    /\ last # None
    /\ last[1] = DelStmt(NameExpr("x"))
    /\ last[2]["x"]
    /\ IsRead(stmt[1], "x")
    /\ msgs = <<"x">>

(***************************************************************************)
(* C7  In an assignment statement the right-hand side is visited before    *)
(* the targets are marked assigned: when the right-hand side is a read of  *)
(* a tracked local that is not assigned before the statement, be it a      *)
(* target of the statement or not, the read gets one diagnostic.           *)
(***************************************************************************)
C7_RhsBeforeTargets ==
    Just("assign") /\ stmt[1].rvalue.kind = "name"
    /\ stmt[1].rvalue.name \in locals
        => (~pre[stmt[1].rvalue.name] => Count(msgs, stmt[1].rvalue.name) = 1)

(***************************************************************************)
(* C8  When a try statement has a finally clause, the state after the      *)
(* statement is the state at the end of the finally body analysed from     *)
(* the joined state of the try body, the handlers and the else body: a     *)
(* local unassigned in the joined state and not assigned in the finally    *)
(* body is unassigned after the statement.                                 *)
(***************************************************************************)
\* The joined state: that of the same statement without its finally.
JoinedState(s) ==
    visit_try_stmt(PreChecker, [s EXCEPT !.finally_body = None]).a

C8_FinallyState ==
    Just("try") /\ stmt[1].finally_body # None =>
        assignments =
            EndOf(JoinedState(stmt[1]), {}, stmt[1].finally_body[1])

(***************************************************************************)
(* C9  When a try statement has an else clause, the else body is analysed  *)
(* from the state at the end of the try body and the state at the end of   *)
(* the else body is what enters the join for the path without exception,   *)
(* next to the handlers' states; an else body whose end is unreachable     *)
(* contributes nothing.                                                    *)
(***************************************************************************)
\* The contribution of the path without exception.
ElseContribution(s) ==
    IF _is_end_unreachable(s.body) \/ _is_end_unreachable(s.else_body[1])
    THEN <<>>
    ELSE <<EndOf(EndOf(pre, {}, s.body), {}, s.else_body[1])>>

C9_ElseContributes ==
    Just("try") /\ stmt[1].else_body # None /\ stmt[1].finally_body = None =>
        LET c == ElseContribution(stmt[1])
                 \o HandlerLoop(PreChecker, stmt[1], 1, <<>>).list
        IN  assignments =
                IF c = <<>> THEN AllAssigned
                ELSE [v \in locals |-> \A i \in DOMAIN c : c[i][v]]

(***************************************************************************)
(* C11  An augmented assignment `x op= e` on a tracked local x marks x as  *)
(* assigned after the statement, as a plain assignment does for every      *)
(* name its target binds.                                                  *)
(***************************************************************************)
C11_AugmentedAssigns ==
    Just("opassign") =>
        \A v \in locals \cap _get_lvalues(stmt[1].lvalue) : assignments[v]

(***************************************************************************)
(* C12  The initial state of one analysis: the tracked locals are the      *)
(* names collected as assignment targets in the body and the parameter     *)
(* names, without the names declared global in the body; every parameter   *)
(* is assigned and every other tracked local is not.  So the constructor   *)
(* completes for every function, with those names as the tracked locals,   *)
(* each of them with an entry in the state.                                *)
(***************************************************************************)
C12_InitialState ==
    /\ ~crashed
    /\ locals = (given.collected \cup given.bound_names) \ given.global_names
    /\ DOMAIN assignments = locals

\* Two calls of literal_hash that both returned a key.
Keyed(i, j) ==
    /\ i \in DOMAIN lit /\ j \in DOMAIN lit
    /\ lit[i].key # None /\ lit[j].key # None

\* e1 and e2 are syntactically identical.
Identical(e1, e2) == e1.kind = e2.kind /\ e1 = e2

\* C13: two expressions that both have a key have equal keys exactly when
\* they are syntactically identical; in particular two literals of
\* different kinds (int and float, bytes and unicode) have different keys.
C13_KeyEquality ==
    \A i, j \in DOMAIN lit :
        Keyed(i, j) =>
            (lit[i].key = lit[j].key <=> Identical(lit[i].e, lit[j].e))

\* The elements of a list, tuple or set literal; the keys and values of a
\* dict literal.
Elements(e) ==
    IF e.kind = "dict"
    THEN {p[2] : p \in {e.pairs[i] : i \in DOMAIN e.pairs}}
         \cup {p[1][1] : p \in {q \in {e.pairs[i] : i \in DOMAIN e.pairs} :
                                    q[1] # None}}
    ELSE {e.items[i] : i \in DOMAIN e.items}

RECURSIVE Partial(_)
\* The key has an absent component, at any depth.
Partial(key) ==
    \E i \in DOMAIN key :
        \/ "none" \in DOMAIN key[i]
        \/ IsTuple(key[i]) /\ Partial(key[i].tuple)

\* C14: a call, slice or lambda has no key whatever its contents; a list,
\* tuple, set or dict literal one of whose elements has no key has no key
\* itself, and the key of such a literal never has an absent component.
C14_AbsencePropagates ==
    \A i \in DOMAIN lit :
        LET e == lit[i].e IN
        /\ e.kind \in {"call", "slice", "lambda"} => lit[i].key = None
        /\ e.kind \in {"list", "tuple", "set", "dict"} =>
             /\ (\E x \in Elements(e) : literal_hash(x) = None)
                    => lit[i].key = None
             /\ lit[i].key # None => ~Partial(lit[i].key)

\* A list, tuple or set literal with an element without key, and a call
\* with an argument, have been given to literal_hash.
C14_Witness ==
    /\ Len(lit) = 2
    /\ lit[1].e.kind \in {"list", "tuple", "set"}
    /\ \E x \in Elements(lit[1].e) : literal_hash(x) = None
    /\ lit[1].key = None
    /\ lit[2].e.kind = "call" /\ lit[2].e.args # <<>>
    /\ lit[2].key = None

\* C16: the statement a visit was given is, after the visit, what it was
\* before: the list of bodies of every if statement in it, and every
\* other field.
C16_TreeUntouched == stmt # None => tree = stmt

\* The diagnostics and the assignments of the walk of statement s from the
\* state before the statement just visited.
Run(s) == VisitStmt(PreChecker, s)

\* C15: a second run on the statement as the first run left it, from the
\* same state and with the same options, collects the same locals and
\* emits the same diagnostics in the same order as the first run, and ends
\* in the same assignments.
C15_Deterministic ==
    stmt # None =>
        /\ CollectStmt(tree[1]) = CollectStmt(stmt[1])
        /\ Run(tree[1]).msgs = msgs
        /\ Run(tree[1]).a = assignments
        /\ Run(WalkedStmt(tree[1])).msgs = msgs

\* A first run has changed the tree and has emitted a diagnostic from
\* inside the if statement whose list of bodies it has changed.
C15_Witness ==
    /\ Just("if")
    /\ tree # stmt
    /\ msgs # <<>>
    /\ \E i \in DOMAIN stmt[1].body_list :
          /\ stmt[1].body_list[i] \in Nested
          /\ tree[1].body_list[i] # stmt[1].body_list[i]
          /\ IsRead(tree[1].body_list[i][1].else_body[1][1], "x")

(***************************************************************************)
(* The executions of a block.  A state of an execution says of each local  *)
(* whether it is bound.  A condition that is not a literal may come out    *)
(* either way; reading an unbound local raises; a call of sys.exit raises. *)
(* An outcome is how the execution leaves ("fall" off the end, "break",    *)
(* "continue", "return", "raise") and the state in which it does.          *)
(***************************************************************************)
Outcome(how, st) == [how |-> how, st |-> st]

RECURSIVE ExprNames(_)
\* The names an expression reads.
ExprNames(e) ==
    CASE e.kind = "name" -> {e.name}
      [] e.kind = "call" -> UNION {ExprNames(e.args[i]) : i \in DOMAIN e.args}
      [] e.kind = "tuple" -> UNION {ExprNames(e.items[i]) : i \in DOMAIN e.items}
      [] OTHER -> {}

\* Evaluating e in state st raises.
Raises(st, e) ==
    \/ ExprExits(e)
    \/ \E v \in ExprNames(e) \cap DOMAIN st : ~st[v]

\* The state with the locals among `names` bound (v = TRUE) or unbound.
Bind(st, names, v) == [n \in DOMAIN st |-> IF n \in names THEN v ELSE st[n]]

RECURSIVE RunStmt(_, _)
RECURSIVE RunBlock(_, _)
RECURSIVE RunIf(_, _, _)
RECURSIVE LoopHeads(_, _)

\* The outcomes in `os` that leave the block, and the outcomes of the rest
\* of the block after those that go on.
RunRest(os, rest) ==
    {o \in os : o.how # "fall"}
    \cup UNION {RunBlock(o.st, rest) : o \in {o \in os : o.how = "fall"}}

RunBlock(st, b) ==
    IF b = <<>> THEN {Outcome("fall", st)}
    ELSE RunRest(RunStmt(st, Head(b)), Tail(b))

\* An absent block falls through.
RunOptBlock(st, b) ==
    IF b = None THEN {Outcome("fall", st)} ELSE RunBlock(st, b[1])

\* The conditions of an if statement from position i on.
RunIf(st, s, i) ==
    IF i > Len(s.expr_list) THEN RunOptBlock(st, s.else_body)
    ELSE IF Raises(st, s.expr_list[i]) THEN {Outcome("raise", st)}
    ELSE (IF ProvablyFalse(s.expr_list[i]) THEN {}
          ELSE RunBlock(st, s.body_list[i]))
         \cup (IF ProvablyTrue(s.expr_list[i]) THEN {}
               ELSE RunIf(st, s, i + 1))

\* The state in which the body of a loop starts, from the state at the
\* head of the loop.
BodyStart(s, h) ==
    IF s.kind = "for" THEN Bind(h, _get_lvalues(s.index), TRUE) ELSE h

\* The body of the loop s can be entered from the head state h.
Enters(s, h) ==
    IF s.kind = "while"
    THEN ~Raises(h, s.expr) /\ ~ProvablyFalse(s.expr)
    ELSE TRUE

\* The loop s can end normally in the head state h.
Exhausts(s, h) ==
    IF s.kind = "while"
    THEN ~Raises(h, s.expr) /\ ~ProvablyTrue(s.expr)
    ELSE TRUE

\* The outcomes of the body of the loop s over the head states H.
BodyOutcomes(s, H) ==
    UNION {RunBlock(BodyStart(s, h), s.body) : h \in {h \in H : Enters(s, h)}}

\* The states in which the head of the loop s is reached, from those in H.
LoopGrow(s, H, N) == IF N \subseteq H THEN H ELSE LoopHeads(s, H \cup N)

LoopHeads(s, H) ==
    LoopGrow(s, H,
        {o.st : o \in {o \in BodyOutcomes(s, H) :
                          o.how \in {"fall", "continue"}}})

\* The outcomes of a loop whose head is reached in the states H.
RunLoop(s, H) ==
    {Outcome("raise", h) : h \in {h \in H : s.kind = "while" /\ Raises(h, s.expr)}}
    \cup UNION {RunOptBlock(h, s.else_body) : h \in {h \in H : Exhausts(s, h)}}
    \cup {Outcome("fall", o.st) :
            o \in {o \in BodyOutcomes(s, H) : o.how = "break"}}
    \cup {o \in BodyOutcomes(s, H) : o.how \in {"return", "raise"}}

\* The outcomes of the handlers for an exception raised in state st: from
\* handler i on, the exception may be taken by it or go on; after the last
\* one it goes on.  A handler without type takes every exception.  With
\* `bound`, the name of a handler is unbound at the end of the handler.
RECURSIVE RunHandlers(_, _, _, _)
RunHandlers(s, st, i, bound) ==
    IF i > Len(s.handlers) THEN {Outcome("raise", st)}
    ELSE LET v == IF s.vars[i] = None THEN {} ELSE {s.vars[i][1].name}
             os == RunBlock(Bind(st, v, TRUE), s.handlers[i])
         IN  {IF bound /\ o.how = "fall"
              THEN Outcome("fall", Bind(o.st, v, FALSE)) ELSE o : o \in os}
             \cup (IF s.types[i] = None THEN {}
                   ELSE RunHandlers(s, st, i + 1, bound))

\* The finally body runs after every outcome; when it falls off its end
\* the outcome stays what it was.
RunFinally(s, os) ==
    IF s.finally_body = None THEN os
    ELSE UNION {{IF f.how = "fall" THEN Outcome(o.how, f.st) ELSE f :
                    f \in RunBlock(o.st, s.finally_body[1])} : o \in os}

\* A try statement whose body has the outcomes os.
RunTry(s, os) ==
    RunFinally(s,
        {o \in os : o.how \notin {"fall", "raise"}}
        \cup UNION {RunOptBlock(o.st, s.else_body) :
                        o \in {o \in os : o.how = "fall"}}
        \cup UNION {RunHandlers(s, o.st, 1, py3) :
                        o \in {o \in os : o.how = "raise"}})

RunStmt(st, s) ==
    CASE s.kind = "assign" ->
            IF Raises(st, s.rvalue) THEN {Outcome("raise", st)}
            ELSE {Outcome("fall",
                    Bind(st, UNION {_get_lvalues(s.lvalues[i]) :
                                       i \in DOMAIN s.lvalues}, TRUE))}
      [] s.kind = "opassign" ->
            IF Raises(st, s.rvalue) \/ Raises(st, s.lvalue)
            THEN {Outcome("raise", st)} ELSE {Outcome("fall", st)}
      [] s.kind = "expr" ->
            IF Raises(st, s.expr) THEN {Outcome("raise", st)}
            ELSE {Outcome("fall", st)}
      [] s.kind = "del" ->
            IF Raises(st, s.expr) THEN {Outcome("raise", st)}
            ELSE {Outcome("fall", Bind(st, _get_lvalues(s.expr), FALSE))}
      [] s.kind = "return" ->
            IF s.value # None /\ Raises(st, s.value[1])
            THEN {Outcome("raise", st)} ELSE {Outcome("return", st)}
      [] s.kind \in {"raise", "break", "continue"} -> {Outcome(s.kind, st)}
      [] s.kind = "funcdef" -> {Outcome("fall", Bind(st, {s.name}, TRUE))}
      [] s.kind = "if" -> RunIf(st, s, 1)
      [] s.kind = "while" -> RunLoop(s, LoopHeads(s, {st}))
      [] s.kind = "for" ->
            IF Raises(st, s.expr) THEN {Outcome("raise", st)}
            ELSE RunLoop(s, LoopHeads(s, {st}))
      [] s.kind = "try" -> RunTry(s, RunBlock(st, s.body))

\* Some execution of the block b falls off its end.
CanFallOff(b) ==
    \E st \in [locals -> BOOLEAN] :
        \E o \in RunBlock(st, b) : o.how = "fall"

\* The blocks of the statement just visited that the visit gave to
\* _is_end_unreachable.
GivenBlocks ==
    IF stmt = None \/ stmt[1].kind \notin {"if", "while", "for"} THEN {}
    ELSE LET c == Candidates(stmt[1])
         IN  {c[i].blk[1] : i \in {i \in DOMAIN c : c[i].live /\ c[i].blk # None}}

\* C17: when _is_end_unreachable answers true for a block, no execution of
\* the block falls off its end; for a block that is an if statement
\* without else whose body ends in a jump the answer is therefore false.
C17_UnreachableIsSound ==
    \A b \in GivenBlocks : _is_end_unreachable(b) => ~CanFallOff(b)

\* The join of the statement s has no surviving contributor: every local is
\* marked assigned after it.  With a finally body, visit_try_stmt absorbs
\* the None that self._check returns.
NoContributor(s) ==
    CASE s.kind \in {"if", "while", "for"} -> Contributors(s) = {}
      [] s.kind = "try" ->
            \/ s.finally_body # None
            \/ /\ _is_end_unreachable(s.body)
               /\ \A i \in DOMAIN s.handlers : _is_end_unreachable(s.handlers[i])
      [] OTHER -> FALSE

\* Nothing is bound: the state in which a function without parameters is
\* entered.
Unbound == [v \in locals |-> FALSE]

\* C18: when the join of a statement had no surviving contributor, and so
\* every local is marked assigned after it, no execution reaches the point
\* after the statement: whenever an execution from the entry of the
\* function falls off the end of the statement, a local that is unbound
\* on that execution is not marked assigned there.
C18_VacuousOnlyWhenDead ==
    stmt # None /\ pre = Unbound /\ NoContributor(stmt[1]) =>
        \A o \in RunStmt(Unbound, stmt[1]) :
            o.how = "fall" => \A v \in locals : ~o.st[v] => ~assignments[v]

\* The parts of a try statement: its body, its handlers, its else body and
\* its finally body.
Parts(s) ==
    {s.body} \cup {s.handlers[i] : i \in DOMAIN s.handlers}
    \cup (IF s.else_body = None THEN {} ELSE {s.else_body[1]})
    \cup (IF s.finally_body = None THEN {} ELSE {s.finally_body[1]})

\* C19: for a block that is one try statement, _is_end_unreachable answers
\* true exactly when the end of the try body, of every handler, of the
\* else body and of the finally body is unreachable.
C19_TryReachability ==
    \A b \in GivenBlocks :
        Len(b) = 1 /\ b[1].kind = "try" =>
            (_is_end_unreachable(b)
                <=> \A part \in Parts(b[1]) : _is_end_unreachable(part))

\* The branches of an if statement that count once literal conditions are
\* folded: the bodies whose condition is not provably false up to the
\* first provably true condition, and the else body when no condition is
\* provably true.
Included(s) ==
    {Candidates(s)[i].blk[1] :
        i \in {i \in DOMAIN Candidates(s) :
                  Candidates(s)[i].live /\ Candidates(s)[i].blk # None}}

\* C20: for a block that is one if statement with an else body,
\* _is_end_unreachable answers true exactly when the end of every included
\* branch is unreachable: a body under a provably false condition, and the
\* branches after a provably true condition, do not count.
C20_IfFolding ==
    \A b \in GivenBlocks :
        Len(b) = 1 /\ b[1].kind = "if" /\ b[1].else_body # None =>
            (_is_end_unreachable(b)
                <=> \A x \in Included(b[1]) : _is_end_unreachable(x))

RECURSIVE Flatten(_)
\* The keys and values of the pairs of a dict literal, in order.
Flatten(pairs) ==
    IF pairs = <<>> THEN <<>>
    ELSE (IF Head(pairs)[1] = None THEN <<>> ELSE <<Head(pairs)[1][1]>>)
         \o <<Head(pairs)[2]>> \o Flatten(Tail(pairs))

\* The immediate subexpressions of an expression, in order.
Subexpressions(e) ==
    CASE e.kind \in {"star", "member", "unary"} -> <<e.expr>>
      [] e.kind = "op" -> <<e.left, e.right>>
      [] e.kind = "comparison" -> e.operands
      [] e.kind \in {"list", "tuple", "set"} -> e.items
      [] e.kind = "dict" -> Flatten(e.pairs)
      [] e.kind = "index" -> <<e.base, e.index>>
      [] OTHER -> <<>>

\* The keys of the immediate subexpressions that have one, in order.
SubexpressionKeys(e) ==
    LET keys == [i \in DOMAIN Subexpressions(e) |->
                    literal_hash(Subexpressions(e)[i])]
        given_ == SelectSeq(keys, LAMBDA k : k # None)
    IN  given_

\* C21: for every expression with a key, subkeys of the key are exactly
\* the keys of the immediate subexpressions of the expression, one for
\* each, whatever the shape of the key: dict literals and operator,
\* member, unary and star expressions included.
C21_SubkeysAreSubexpressionKeys ==
    \A i \in DOMAIN lit :
        lit[i].key # None => lit[i].subkeys = SubexpressionKeys(lit[i].e)

\* C22: literal(e) is LITERAL_NO exactly when literal_hash(e) is None: an
\* expression with a key classifies as LITERAL_YES or LITERAL_TYPE, also a
\* member, unary, star, binary or comparison expression over an operand
\* without key.
C22_ClassificationAgrees ==
    \A i \in DOMAIN lit : lit[i].class = LITERAL_NO <=> lit[i].key = None

\* The name that handler i of the try statement s binds, if any.
HandlerNames(s, i) ==
    IF s.vars[i] = None THEN {} ELSE {s.vars[i][1].name}

\* The state at the end of handler i of s as it enters the join: the
\* handler is analysed from `pre` with its name marked assigned, and with
\* `deleted` the name is marked not assigned at its end.
HandlerEndState(s, i, deleted) ==
    LET end == EndOf(pre, HandlerNames(s, i), s.handlers[i])
    IN  IF deleted
        THEN [v \in DOMAIN end |->
                IF v \in HandlerNames(s, i) THEN FALSE ELSE end[v]]
        ELSE end

\* The states that enter the join of a try statement without else and
\* without finally: the end of the body and the ends of the handlers,
\* those whose end is reachable.
TryContributors(s) ==
    (IF _is_end_unreachable(s.body) THEN {} ELSE {EndOf(pre, {}, s.body)})
    \cup {HandlerEndState(s, i, py3) :
            i \in {i \in DOMAIN s.handlers :
                      ~_is_end_unreachable(s.handlers[i])}}

JustComprehension ==
    Just("expr") /\ stmt[1].expr.kind \in {"generator", "listcomp"}

\* The generator of the comprehension just visited.
Generator ==
    IF stmt[1].expr.kind = "listcomp" THEN stmt[1].expr.generator
    ELSE stmt[1].expr

\* The comprehension just visited is analysed in isolation: it is a
\* generator expression, or the version is 3 or later.
Isolated == py3 \/ stmt[1].expr.kind = "generator"

RECURSIVE ReadNames(_, _)
\* The names that the generator g reads outside its indices, in the order
\* of the walk: for each `for`, the sequence and the conditions, then the
\* left expression.
ReadNames(g, i) ==
    IF i > Len(g.indices) THEN <<g.left_expr.name>>
    ELSE <<g.sequences[i].name>>
         \o [j \in DOMAIN g.condlists[i] |-> g.condlists[i][j].name]
         \o ReadNames(g, i + 1)

\* The read of the name v warns in isolation: v is a tracked local that is
\* not an index of the comprehension and is not assigned before it.
WarnsIsolated(v) ==
    v \in locals /\ v \notin IndexNames(Generator) /\ ~pre[v]

\* C24: with version 3 or later, while a generator expression or a list
\* comprehension is analysed its index names are not tracked: no read of
\* an index name inside it gets a diagnostic, the other reads are checked
\* against the state before it, and the state after it is the state
\* before it.  Below version 3 the same holds for a generator expression,
\* and a list comprehension marks its index names assigned in the
\* enclosing state.
C24_ComprehensionIsolation ==
    JustComprehension =>
        /\ Isolated =>
              /\ msgs = SelectSeq(ReadNames(Generator, 1), WarnsIsolated)
              /\ \A v \in IndexNames(Generator) : Count(msgs, v) = 0
              /\ assignments = pre
        /\ ~Isolated =>
              assignments =
                  [v \in locals |-> v \in IndexNames(Generator) \/ pre[v]]

\* With version 3, `[x for x in y if x]` with x and y tracked and not
\* assigned: the read of y gets a diagnostic, those of x get none.
C24_Witness ==
    /\ JustComprehension /\ py3
    /\ stmt[1].expr.kind = "listcomp"
    /\ IndexNames(Generator) = {"x"}
    /\ Generator.left_expr = NameExpr("x")
    /\ Generator.condlists = <<<<NameExpr("x")>>>>
    /\ locals = {"x", "y"}
    /\ pre = [v \in locals |-> FALSE]
    /\ msgs = <<"y">>
    /\ assignments = pre

\* The states that enter the join of the statement just visited, for the
\* statements whose join is described above.
JoinContributors ==
    IF stmt = None THEN {}
    ELSE IF stmt[1].kind \in {"if", "while", "for"}
    THEN {PathEnd(stmt[1], i) : i \in Contributors(stmt[1])}
    ELSE IF /\ stmt[1].kind = "try"
            /\ stmt[1].else_body = None /\ stmt[1].finally_body = None
    THEN TryContributors(stmt[1])
    ELSE {}

\* C25: the assignments of a checker have an entry for every local the
\* checker tracks: after every statement, in every state that enters a
\* join, and in the checker that analyses a comprehension, so that the
\* lookup at a read and the lookups of a join find their entry.
C25_EntryForEveryLocal ==
    /\ locals \subseteq DOMAIN assignments
    /\ locals \subseteq DOMAIN pre
    /\ \A c \in JoinContributors : locals \subseteq DOMAIN c
    /\ JustComprehension /\ Isolated =>
          _make_generator_checker(PreChecker, Generator).locals
              \subseteq DOMAIN _make_generator_checker(PreChecker, Generator).a

\* An if statement whose join had two contributors, one of which left a
\* local unassigned that the other assigned: the local has its entry, not
\* assigned, after the statement.
C25_Witness ==
    /\ Just("if")
    /\ locals = {"x", "y"}
    /\ Cardinality(JoinContributors) = 2
    /\ \E c \in JoinContributors : c["x"]
    /\ "x" \in DOMAIN assignments /\ ~assignments["x"]
    /\ "y" \in DOMAIN assignments

====
